---- MODULE Spec2Model ----
(***************************************************************************)
(* aiohttp_admin: the SQLAlchemy helpers of backends/sa_utils.py (trafaret *)
(* validators derived from a table, the filter compiler, the list-query    *)
(* column check, the front-end type mapper) and routes.setup_resources.    *)
(*                                                                         *)
(* Every operation is a synchronous call.  A behaviour is one call: Init   *)
(* draws the operation and its arguments, the operation's action runs the  *)
(* whole call and records what it returned or raised.                      *)
(***************************************************************************)
EXTENDS Integers, Sequences, FiniteSets, TLC

VARIABLES pc, call, arg, out

vars == <<pc, call, arg, out>>

(***************************************************************************)
(* Bounds of the model.                                                    *)
(***************************************************************************)
\* longest list given as a filter value
MaxListLen == 2
\* most columns named by one filter request
MaxFilterEntries == 2
\* most operators given for one column of a filter request
MaxOperators == 2
\* most resources of one schema
MaxResources == 2

(***************************************************************************)
(* JSON values as they arrive in a payload or a filter request, and the    *)
(* Python values the validators return.  kind is the Python type, text the *)
(* value's repr, items the elements of a list.                             *)
(***************************************************************************)
Scalar(kind, text) == [kind |-> kind, text |-> text, items |-> <<>>]

ListOf(items) == [kind |-> "list", text |-> "", items |-> items]

i18 == Scalar("int", "18")
i65 == Scalar("int", "65")
s18 == Scalar("str", "18")
sBob == Scalar("str", "Bob")
sRoberta == Scalar("str", "Roberta")
sDate == Scalar("str", "2023-02-13T19:04:00Z")
f15 == Scalar("float", "1.5")
vNull == Scalar("null", "None")
vDict == Scalar("dict", "{}")

\* texts int() accepts, texts float() accepts, texts the RFC 3339 parser accepts
IntTexts == {"18", "65"}
FloatTexts == IntTexts \cup {"1.5"}
Rfc3339Texts == {"2023-02-13T19:04:00Z"}

ToIntValue(v) == Scalar("int", v.text)

ToFloatValue(v) == Scalar("float", IF v.text \in IntTexts THEN v.text \o ".0" ELSE v.text)

ToDateTimeValue(v) == Scalar("datetime", v.text)

(***************************************************************************)
(* SQLAlchemy column types.  cls is the type's class; Mro gives the        *)
(* classes isinstance() answers True for.  A Column object is no type.     *)
(***************************************************************************)
SaType(cls, length, enums, item_type) ==
    [cls |-> cls, length |-> length, enums |-> enums, item_type |-> item_type]

TEnum == SaType("Enum", <<>>, {"Bob", "Eve"}, <<>>)
TString == SaType("String", <<5>>, {}, <<>>)
TText == SaType("Text", <<>>, {}, <<>>)
TInteger == SaType("Integer", <<>>, {}, <<>>)
TFloat == SaType("Float", <<>>, {}, <<>>)
TDateTime == SaType("DateTime", <<>>, {}, <<>>)
TDate == SaType("Date", <<>>, {}, <<>>)
TBoolean == SaType("Boolean", <<>>, {}, <<>>)
TJSON == SaType("JSON", <<>>, {}, <<>>)
TARRAY == SaType("ARRAY", <<>>, {}, <<TInteger>>)
TLargeBinary == SaType("LargeBinary", <<>>, {}, <<>>)

Categories == {"Enum", "String", "Text", "Integer", "Float", "DateTime", "Date",
               "Boolean", "JSON", "ARRAY"}

SaTypes == {TEnum, TString, TText, TInteger, TFloat, TDateTime, TDate, TBoolean,
            TJSON, TARRAY, TLargeBinary}

Mro(cls) ==
    CASE cls = "Text" -> {"Text", "String"}
      [] cls = "Enum" -> {"Enum", "String"}
      [] OTHER -> {cls}

IsInstance(obj, cls) == cls \in Mro(obj.cls)

Column(name, type, nullable, server_default) ==
    [cls |-> "Column", name |-> name, type |-> type, nullable |-> nullable,
     server_default |-> server_default]

\* a server_default is None (<<>>) or a DefaultClause object
DefaultClause == Scalar("DefaultClause", "DefaultClause")

(***************************************************************************)
(* trafaret validators: the library's check of a value, by validator kind. *)
(***************************************************************************)
Trafaret(kind, max_length, enums, item, null) ==
    [kind |-> kind, max_length |-> max_length, enums |-> enums, item |-> item,
     null |-> null]

Good(v) == [ok |-> TRUE, value |-> v, error |-> ""]

Bad(msg) == [ok |-> FALSE, value |-> vNull, error |-> msg]

StrBoolConvertable == {"t", "true", "false", "y", "n", "yes", "no", "on", "off",
                       "1", "0", "none"}

CheckScalar(traf, v) ==
    CASE traf.kind = "Enum" ->
           IF v.kind = "str" /\ v.text \in traf.enums THEN Good(v)
           ELSE Bad("value doesn't match any variant")
      [] traf.kind = "String" ->
           IF v.kind # "str" THEN Bad("value is not a string")
           ELSE IF Len(v.text) = 0 THEN Bad("blank value is not allowed")
           ELSE IF traf.max_length # <<>> /\ Len(v.text) > traf.max_length[1]
                THEN Bad("String is longer than max_length")
           ELSE Good(v)
      [] traf.kind = "Int" ->
           IF v.kind = "int" THEN Good(v)
           ELSE IF v.kind = "float" THEN Bad("value is not int")
           ELSE IF v.kind = "str"
                THEN IF v.text \in IntTexts THEN Good(ToIntValue(v))
                     ELSE Bad("value can't be converted to int")
           ELSE Bad("value is not int")
      [] traf.kind = "Float" ->
           IF v.kind \in {"int", "float"} THEN Good(ToFloatValue(v))
           ELSE IF v.kind = "str"
                THEN IF v.text \in FloatTexts THEN Good(ToFloatValue(v))
                     ELSE Bad("value can't be converted to float")
           ELSE Bad("value is not float")
      [] traf.kind = "DateTime" ->
           IF v.kind = "str" /\ v.text \in Rfc3339Texts THEN Good(ToDateTimeValue(v))
           ELSE Bad("value is not a RFC 3339 datetime")
      [] traf.kind = "StrBool" ->
           LET s == IF v.kind = "null" THEN "none" ELSE v.text
           IN IF v.kind # "DefaultClause" /\ s \in StrBoolConvertable
              THEN Good(Scalar("bool", IF s \in {"t", "true", "y", "yes", "on", "1"}
                                       THEN "True" ELSE "False"))
              ELSE Bad("value can't be converted to Bool")
      [] traf.kind = "JSON" ->
           IF v.kind = "dict" THEN Good(v)
           ELSE IF v.kind = "list" /\ \A i \in 1..Len(v.items) : v.items[i].kind = "dict"
                THEN Good(v)
           ELSE Bad("value is not a dict nor a list of dicts")
      [] OTHER -> Bad("no such validator")

\* check_and_return of a validator: t.List checks every item; `field | t.Null`
\* tries the field's own check first and accepts None when that fails
CheckBase(traf, v) ==
    IF traf.kind = "List"
    THEN IF v.kind # "list" THEN Bad("value is not a list")
         ELSE IF \A i \in 1..Len(v.items) : CheckScalar(traf.item[1], v.items[i]).ok
              THEN Good(ListOf([i \in 1..Len(v.items) |->
                                   CheckScalar(traf.item[1], v.items[i]).value]))
         ELSE Bad("some items are not valid")
    ELSE CheckScalar(traf, v)

Check(traf, v) ==
    LET base == CheckBase(traf, v)
    IN IF base.ok THEN base
       ELSE IF traf.null /\ v.kind = "null" THEN Good(v)
       ELSE base

(***************************************************************************)
(* sa_utils.build_trafaret: the validator of a column type.                *)
(***************************************************************************)
NoTrafaret == Trafaret("None", <<>>, {}, <<>>, FALSE)

Built(traf) == [raised |-> "", trafaret |-> traf]

NotImplemented == [raised |-> "NotImplementedError", trafaret |-> NoTrafaret]

build_scalar_trafaret(sa_type) ==
    IF IsInstance(sa_type, "Enum") THEN Built(Trafaret("Enum", <<>>, sa_type.enums, <<>>, FALSE))
    ELSE IF IsInstance(sa_type, "Text") THEN Built(Trafaret("String", <<>>, {}, <<>>, FALSE))
    ELSE IF IsInstance(sa_type, "String")
         THEN Built(Trafaret("String", sa_type.length, {}, <<>>, FALSE))
    ELSE IF IsInstance(sa_type, "Integer") THEN Built(Trafaret("Int", <<>>, {}, <<>>, FALSE))
    ELSE IF IsInstance(sa_type, "Float") THEN Built(Trafaret("Float", <<>>, {}, <<>>, FALSE))
    ELSE IF IsInstance(sa_type, "DateTime") THEN Built(Trafaret("DateTime", <<>>, {}, <<>>, FALSE))
    ELSE IF IsInstance(sa_type, "Date") THEN Built(Trafaret("DateTime", <<>>, {}, <<>>, FALSE))
    ELSE IF IsInstance(sa_type, "Boolean") THEN Built(Trafaret("StrBool", <<>>, {}, <<>>, FALSE))
    ELSE IF IsInstance(sa_type, "JSON") THEN Built(Trafaret("JSON", <<>>, {}, <<>>, FALSE))
    ELSE NotImplemented

build_trafaret(sa_type) ==
    LET scalar == build_scalar_trafaret(sa_type)
    IN IF scalar.raised = "" THEN scalar
       ELSE IF IsInstance(sa_type, "ARRAY")
            THEN LET item_trafaret == build_scalar_trafaret(sa_type.item_type[1])
                 IN IF item_trafaret.raised # "" THEN item_trafaret
                    ELSE Built(Trafaret("List", <<>>, {}, <<item_trafaret.trafaret>>, FALSE))
       ELSE NotImplemented

(***************************************************************************)
(* sa_utils.build_key, build_field, validator_from_table, and trafaret's   *)
(* check of a payload against the t.Dict they build.                       *)
(***************************************************************************)
Table(name, columns) == [name |-> name, c |-> columns]

ColumnNames(table) == {table.c[i].name : i \in 1..Len(table.c)}

build_key(name, default) == [name |-> name, default |-> default]

build_field_without_null(column) == build_trafaret(column.type)

build_field(column) ==
    LET field == build_trafaret(column.type)
    IN IF field.raised # "" THEN field
       ELSE IF column.nullable THEN Built([field.trafaret EXCEPT !.null = TRUE])
       ELSE field

\* the loop of validator_from_table over table.c.items(), from column i on
RECURSIVE table_keys(_, _, _, _)
table_keys(table, primary_key, skip_pk, i) ==
    IF i > Len(table.c) THEN [raised |-> "", keys |-> <<>>]
    ELSE LET column == table.c[i]
             rest == table_keys(table, primary_key, skip_pk, i + 1)
         IN IF skip_pk /\ column.name = primary_key THEN rest
            ELSE LET key == build_key(column.name, column.server_default)
                     traf_field == build_field(column)
                 IN IF traf_field.raised # ""
                    THEN [raised |-> traf_field.raised, keys |-> <<>>]
                    ELSE IF rest.raised # "" THEN rest
                    ELSE [raised |-> "",
                          keys |-> <<[key |-> key, field |-> traf_field.trafaret]>>
                                   \o rest.keys]

validator_always_skipping(table, primary_key, skip_pk) ==
    LET built == table_keys(table, primary_key, TRUE, 1)
    IN [raised |-> built.raised, keys |-> built.keys, ignore |-> {primary_key}]

validator_from_table(table, primary_key, skip_pk) ==
    LET built == table_keys(table, primary_key, skip_pk, 1)
    IN [raised |-> built.raised, keys |-> built.keys, ignore |-> {primary_key}]

KeyNames(validator) == {validator.keys[i].key.name : i \in 1..Len(validator.keys)}

\* t.Key: the value checked for a key, a missing key with a default takes the default
KeyOutcome(entry, payload) ==
    IF entry.key.name \in DOMAIN payload THEN Check(entry.field, payload[entry.key.name])
    ELSE IF entry.key.default # <<>> THEN Check(entry.field, entry.key.default[1])
    ELSE Bad("is required")

\* t.Dict(...).ignore_extra(pk).check(payload): every key's error and every
\* extra key that is not ignored
DictCheck(validator, payload) ==
    LET n == Len(validator.keys)
        key_errors == {<<validator.keys[i].key.name, KeyOutcome(validator.keys[i], payload).error>> :
                          i \in {j \in 1..n : ~KeyOutcome(validator.keys[j], payload).ok}}
        extra_errors == {<<k, "is not allowed key">> :
                            k \in (DOMAIN payload \ KeyNames(validator)) \ validator.ignore}
        errors == key_errors \cup extra_errors
    IN [ok |-> errors = {},
        errors |-> errors,
        data |-> IF errors # {} THEN <<>>
                 ELSE [i \in 1..n |-> <<validator.keys[i].key.name,
                                         KeyOutcome(validator.keys[i], payload).value>>]]

(***************************************************************************)
(* The filter compiler: to_column, op, comparator_map, check_comparator,   *)
(* check_value, create_filter.  A filter request is the sequence of its    *)
(* (column name, operation) items in the mapping's iteration order; an     *)
(* operation is a bare value or a mapping, the sequence of its (operator,  *)
(* value) items.  A query is the table's select() and its where() clauses. *)
(***************************************************************************)
Bare(value) == [isdict |-> FALSE, value |-> value, items |-> <<>>]

Mapping(items) == [isdict |-> TRUE, value |-> vNull, items |-> items]

Predicate(column_name, cmp, value) == [column |-> column_name, cmp |-> cmp, value |-> value]

select(table) == [table |-> table.name, where |-> <<>>]

where_replacing(query, f) == [query EXCEPT !.where = <<f>>]

where(query, f) == [query EXCEPT !.where = Append(query.where, f)]

NoColumn == Column("", TLargeBinary, FALSE, <<>>)

\* table.c[column_name]: the column, or KeyError
to_column(column_name, table) ==
    IF column_name \in ColumnNames(table)
    THEN [raised |-> "",
          column |-> table.c[CHOOSE i \in 1..Len(table.c) : table.c[i].name = column_name]]
    ELSE [raised |-> "KeyError", column |-> NoColumn]

op(operation, column) ==
    IF operation = "in" THEN [raised |-> "", comparator |-> "in_"]
    ELSE IF operation = "like" THEN [raised |-> "", comparator |-> "like"]
    ELSE IF operation = "eq" THEN [raised |-> "", comparator |-> "="]
    ELSE IF operation = "ne" THEN [raised |-> "", comparator |-> "!="]
    ELSE IF operation = "le" THEN [raised |-> "", comparator |-> "<="]
    ELSE IF operation = "lt" THEN [raised |-> "", comparator |-> "<"]
    ELSE IF operation = "ge" THEN [raised |-> "", comparator |-> ">="]
    ELSE IF operation = "gt" THEN [raised |-> "", comparator |-> ">"]
    ELSE [raised |-> "ValueError", comparator |-> ""]

\* the call do_compare(column, value) of the comparator op() returned:
\* column.in_(v) wants a list, v + '%' wants a string
do_compare(comparator, column, v) ==
    IF comparator = "in_"
    THEN IF v.kind = "list"
         THEN [raised |-> "", predicate |-> Predicate(column.name, "IN", v)]
         ELSE [raised |-> "ArgumentError", predicate |-> Predicate(column.name, "", vNull)]
    ELSE IF comparator = "like"
         THEN IF v.kind = "str"
              THEN [raised |-> "",
                    predicate |-> Predicate(column.name, "LIKE", Scalar("str", v.text \o "%"))]
              ELSE [raised |-> "TypeError", predicate |-> Predicate(column.name, "", vNull)]
    ELSE [raised |-> "", predicate |-> Predicate(column.name, comparator, v)]

\* keyed by the exact class of the column's type
comparator_map ==
    [cls \in {"String", "Text", "Integer", "Float", "Date"} |->
        CASE cls \in {"String", "Text"} -> {"eq", "ne", "like"}
          [] cls = "Integer" -> {"eq", "ne", "lt", "le", "gt", "ge", "in"}
          [] OTHER -> {"eq", "ne", "lt", "le", "gt", "ge"}]

\* "" when the comparator is allowed, else the exception raised
check_comparator(column, comparator) ==
    IF column.type.cls \notin DOMAIN comparator_map THEN "Exception"
    ELSE IF comparator \notin comparator_map[column.type.cls] THEN "Exception"
    ELSE ""

InvalidElements(trafaret, value) ==
    {i \in 1..Len(value.items) : ~Check(trafaret, value.items[i]).ok}

Minimum(S) == CHOOSE i \in S : \A j \in S : i <= j

\* reported: the elements of a list value (0: the value itself) the error is about
check_value(column, value) ==
    LET built == build_trafaret(column.type)
        trafaret == built.trafaret
    IN IF built.raised # "" THEN [raised |-> built.raised, value |-> vNull, reported |-> {}]
       ELSE IF value.kind = "list"
            THEN IF InvalidElements(trafaret, value) = {}
                 THEN [raised |-> "",
                       value |-> ListOf([i \in 1..Len(value.items) |->
                                            Check(trafaret, value.items[i]).value]),
                       reported |-> {}]
                 ELSE [raised |-> "JsonValidaitonError", value |-> vNull,
                       reported |-> {Minimum(InvalidElements(trafaret, value))}]
       ELSE IF Check(trafaret, value).ok
            THEN [raised |-> "", value |-> Check(trafaret, value).value, reported |-> {}]
       ELSE [raised |-> "JsonValidaitonError", value |-> vNull, reported |-> {0}]

\* what a call of create_filter ends in: the query returned, or the exception
Returned(query) ==
    [raised |-> "", column |-> "", operator |-> "", reported |-> {},
     returned |-> TRUE, query |-> query]

Raised(kind, column_name, op_name, reported) ==
    [raised |-> kind, column |-> column_name, operator |-> op_name, reported |-> reported,
     returned |-> FALSE, query |-> [table |-> "", where |-> <<>>]]

normalize_as_ne(operation) ==
    IF ~operation.isdict THEN Mapping(<<<<"ne", operation.value>>>>) ELSE operation

\* `if not isinstance(operation, dict): operation = {'eq': value}`
normalize(operation) ==
    IF ~operation.isdict THEN Mapping(<<<<"eq", operation.value>>>>) ELSE operation

\* the inner loop of create_filter over operation.items(); `returned` FALSE
\* carries the query on to the next column
RECURSIVE apply_operation(_, _, _)
apply_operation(column, items, query) ==
    IF items = <<>> THEN Returned(query)
    ELSE LET op_name == items[1][1]
             checked == check_comparator(column, op_name)
             value == check_value(column, items[1][2])
             do_compare_ == op(op_name, column)
             f == do_compare(do_compare_.comparator, column, value.value)
         IN IF checked # "" THEN Raised(checked, column.name, op_name, {})
            ELSE IF value.raised # ""
                 THEN Raised(value.raised, column.name, op_name, value.reported)
            ELSE IF do_compare_.raised # ""
                 THEN Raised(do_compare_.raised, column.name, op_name, {})
            ELSE IF f.raised # "" THEN Raised(f.raised, column.name, op_name, {})
            ELSE apply_operation(column, Tail(items), where(query, f.predicate))

\* the outer loop of create_filter over filter.items()
RECURSIVE apply_filter(_, _, _)
apply_filter(table, filter, query) ==
    IF filter = <<>> THEN Returned(query)
    ELSE LET column_name == filter[1][1]
             found == to_column(column_name, table)
             applied == apply_operation(found.column, normalize(filter[1][2]).items, query)
         IN IF found.raised # "" THEN Raised(found.raised, column_name, "", {})
            ELSE IF applied.raised # "" THEN applied
            ELSE apply_filter(table, Tail(filter), applied.query)

create_filter(table, filter) == apply_filter(table, filter, select(table))

(***************************************************************************)
(* sa_utils.validate_query.  q is the request as ..utils.validate_query    *)
(* parsed it: an optional _sortField and an optional _filters mapping, of  *)
(* which only the keys matter here.                                        *)
(***************************************************************************)
ListQuery(sort_field, filters) == [sort_field |-> sort_field, filters |-> filters]

not_valid_first(columns, possible_columns) ==
    LET absent == columns \ possible_columns
    IN IF absent = {} THEN {} ELSE {CHOOSE c \in absent : TRUE}

\* set(columns).difference(possible_columns)
not_valid_columns(columns, possible_columns) == columns \ possible_columns

validate_query(q, table) ==
    LET possible_columns == ColumnNames(table)
        filters == IF q.filters = <<>> THEN {} ELSE q.filters[1]
        columns == filters \cup (IF q.sort_field # <<>> THEN {q.sort_field[1]} ELSE {})
        not_valid == not_valid_columns(columns, possible_columns)
    IN IF not_valid # {} THEN [raised |-> "JsonValidaitonError", columns |-> not_valid]
       ELSE [raised |-> "", columns |-> {}]

(***************************************************************************)
(* sa_utils.build_type_mapper and build_sa_fe_field.                       *)
(***************************************************************************)
build_type_mapper(sa_type) ==
    IF IsInstance(sa_type, "Enum") THEN [raised |-> "", fe_type |-> "string"]
    ELSE IF IsInstance(sa_type, "String") THEN [raised |-> "", fe_type |-> "string"]
    ELSE IF IsInstance(sa_type, "Text") THEN [raised |-> "", fe_type |-> "text"]
    ELSE IF IsInstance(sa_type, "Integer") THEN [raised |-> "", fe_type |-> "string"]
    ELSE IF IsInstance(sa_type, "Float") THEN [raised |-> "", fe_type |-> "float"]
    ELSE IF IsInstance(sa_type, "DateTime") THEN [raised |-> "", fe_type |-> "datetime"]
    ELSE IF IsInstance(sa_type, "Date") THEN [raised |-> "", fe_type |-> "date"]
    ELSE IF IsInstance(sa_type, "Boolean") THEN [raised |-> "", fe_type |-> "boolean"]
    ELSE IF IsInstance(sa_type, "JSON") THEN [raised |-> "", fe_type |-> "json"]
    ELSE IF IsInstance(sa_type, "ARRAY") THEN [raised |-> "", fe_type |-> "embedded_list"]
    ELSE [raised |-> "NotImplementedError", fe_type |-> ""]

\* the column itself, not column.type, is handed to build_type_mapper
build_sa_fe_field(column) == build_type_mapper(column)

(***************************************************************************)
(* routes.setup_resources.  A model has a name, fields, inputs (one per    *)
(* field, each with its props) and a repr_field; a schema resource names   *)
(* its model and may give "display" and "repr" (<<>>: the key is absent).  *)
(***************************************************************************)
Input(always_on) == [props |-> [alwaysOn |-> always_on]]

Model(name, fields, repr_field) ==
    [name |-> name, fields |-> fields, inputs |-> [k \in fields |-> Input("")],
     repr_field |-> repr_field]

Resource(model, display, repr) ==
    [model |-> model, display |-> display, repr |-> repr, label |-> <<>>, icon |-> <<>>,
     bulk_update |-> <<>>]

\* m.fields.keys() - r["display"], () when r has no "display"
omit_fields_of(m, r) == IF r.display = <<>> THEN {} ELSE m.fields \ r.display[1]

always_on_all(inputs, omit_fields) ==
    [k \in DOMAIN inputs |-> [inputs[k] EXCEPT !.props.alwaysOn = "alwaysOn"]]

\* the loop over m.inputs.items()
always_on(inputs, omit_fields) ==
    [k \in DOMAIN inputs |->
        IF k \notin omit_fields THEN [inputs[k] EXCEPT !.props.alwaysOn = "alwaysOn"]
        ELSE inputs[k]]

EmptyAdmin ==
    [raised |-> "", resources |-> <<>>, routes |-> {}, state |-> [n \in {} |-> <<>>]]

\* the loop of setup_resources over schema["resources"], from resource i on;
\* admin.state is admin["state"]["resources"], keyed by the model's name
RECURSIVE register(_, _, _)
register(admin, schema, i) ==
    IF i > Len(schema) THEN admin
    ELSE LET r == schema[i]
             m == r.model
             omit_fields == omit_fields_of(m, r)
             repr_field == IF r.repr = <<>> THEN m.repr_field ELSE r.repr[1]
             inputs == always_on(m.inputs, omit_fields)
             state == [fields |-> m.fields, inputs |-> inputs, list_omit |-> omit_fields,
                       repr |-> repr_field, label |-> r.label, icon |-> r.icon,
                       bulk_update |-> r.bulk_update]
         IN IF r.display # <<>> /\ ~(\A f \in omit_fields : f \in m.fields)
            THEN [admin EXCEPT !.raised = "ValueError",
                               !.resources = Append(@, m),
                               !.routes = @ \cup {m.name}]
            ELSE register([admin EXCEPT !.resources = Append(@, [m EXCEPT !.inputs = inputs]),
                                        !.routes = @ \cup {m.name},
                                        !.state = [n \in DOMAIN @ \cup {m.name} |->
                                                      IF n = m.name THEN state ELSE @[n]]],
                          schema, i + 1)

setup_resources(schema) == register(EmptyAdmin, schema, 1)

(***************************************************************************)
(* The calls the model makes: their arguments.                             *)
(***************************************************************************)
SeqUpTo(S, n) == UNION {[1..k -> S] : k \in 0..n}

Distinct(seq) == \A i, j \in 1..Len(seq) : i # j => seq[i] # seq[j]

\* a table with one column of every type
TypesTable ==
    Table("person",
          <<Column("kind", TEnum, FALSE, <<>>), Column("name", TString, FALSE, <<>>),
            Column("bio", TText, TRUE, <<>>), Column("age", TInteger, FALSE, <<>>),
            Column("score", TFloat, TRUE, <<>>), Column("seen", TDateTime, FALSE, <<>>),
            Column("born", TDate, FALSE, <<>>), Column("active", TBoolean, FALSE, <<>>),
            Column("meta", TJSON, TRUE, <<>>), Column("tags", TARRAY, TRUE, <<>>),
            Column("blob", TLargeBinary, TRUE, <<>>)>>)

OperatorNames == {"eq", "ne", "lt", "le", "gt", "ge", "like", "in"}

FilterScalars == {i18, s18, sBob, sRoberta, sDate, f15, vNull}

FilterLists == {ListOf(items) : items \in SeqUpTo({i18, sBob}, MaxListLen)}

FilterValues == FilterScalars \cup FilterLists

\* requests naming one column, with any operator (or one op() does not know) or none
SingleFilters ==
    {<<<<c, Bare(v)>>>> : c \in ColumnNames(TypesTable) \cup {"ghost"}, v \in FilterValues}
    \cup {<<<<c, Mapping(<<<<o, v>>>>)>>>> :
             c \in ColumnNames(TypesTable) \cup {"ghost"},
             o \in OperatorNames \cup {"between"}, v \in FilterValues}

\* requests naming several columns, several operators each
SomeOperations ==
    {Bare(v) : v \in {i18, i65}}
    \cup {Mapping(items) :
             items \in {s \in SeqUpTo({<<"gt", i18>>, <<"lt", i65>>, <<"ne", i18>>}, MaxOperators) :
                           s # <<>> /\ Distinct([i \in 1..Len(s) |-> s[i][1]])}}

SomeFilters ==
    {f \in SeqUpTo({"age", "score", "ghost"} \X SomeOperations, MaxFilterEntries) :
        Distinct([i \in 1..Len(f) |-> f[i][1]])}

\* tables for validator_from_table: id and two more columns; the primary key
\* named in the call is id, or role, which is no column of the table
ValidatorTables ==
    {Table("users", <<Column("id", TInteger, FALSE, d0), Column("name", TString, n1, d1),
                      Column("extra", t2, n2, d2)>>) :
        d0 \in {<<>>, <<DefaultClause>>},
        n1 \in BOOLEAN, d1 \in {<<>>, <<DefaultClause>>},
        t2 \in {TInteger, TJSON, TARRAY, TBoolean},
        n2 \in BOOLEAN, d2 \in {<<>>, <<DefaultClause>>}}

\* payloads: per key the values tried (a key may be missing); "role" is no column
PayloadChoices ==
    [k \in {"id", "name", "extra", "role"} |->
        CASE k = "id" -> {i18, sBob}
          [] k = "name" -> {sBob, sRoberta, vNull}
          [] k = "extra" -> {i18, vNull, vDict, ListOf(<<i18>>)}
          [] OTHER -> {i18}]

Payloads ==
    UNION {{p \in [keys -> FilterScalars \cup {vDict, ListOf(<<i18>>)}] :
               \A k \in keys : p[k] \in PayloadChoices[k]} :
           keys \in SUBSET {"id", "name", "extra", "role"}}

\* tables and parsed list queries for validate_query
QueryNames == {"age", "name", "ghost", "phantom"}

QueryTables ==
    {Table("person", cols) :
        cols \in {<<Column("age", TInteger, FALSE, <<>>)>>,
                  <<Column("age", TInteger, FALSE, <<>>), Column("name", TString, FALSE, <<>>)>>,
                  <<Column("name", TString, FALSE, <<>>), Column("ghost", TText, TRUE, <<>>)>>}}

ListQueries ==
    {ListQuery(sf, fl) :
        sf \in {<<>>} \cup {<<n>> : n \in QueryNames},
        fl \in {<<>>} \cup {<<ks>> : ks \in SUBSET QueryNames}}

\* models and schemas for setup_resources
Models ==
    {Model("dummy", {"id"}, "id"), Model("dummy2", {"id", "msg"}, "id"),
     Model("parent", {"id", "value"}, "value")}

Resources ==
    {Resource(m, d, r) :
        m \in Models,
        d \in {<<>>} \cup {<<fs>> : fs \in SUBSET {"id", "msg", "nonexistent"}},
        r \in {<<>>, <<"msg">>}}

Schemas ==
    {sc \in SeqUpTo(Resources, MaxResources) :
        Distinct([i \in 1..Len(sc) |-> sc[i].model.name])}

(***************************************************************************)
(* The state machine.                                                      *)
(***************************************************************************)
NoOutput == [raised |-> "not called"]

Init ==
    /\ pc = "call"
    /\ out = NoOutput
    /\ \/ /\ call = "create_filter"
          /\ arg \in {[table |-> TypesTable, filter |-> f] : f \in SingleFilters \cup SomeFilters}
       \/ /\ call = "check_value"
          /\ arg \in {[column |-> TypesTable.c[i], value |-> v] :
                         i \in 1..Len(TypesTable.c), v \in FilterValues}
       \/ /\ call = "validator_from_table"
          /\ arg \in {[table |-> t, primary_key |-> k, skip_pk |-> s, payload |-> p] :
                         t \in ValidatorTables, k \in {"id", "role"}, s \in BOOLEAN,
                         p \in Payloads}
       \/ /\ call = "validate_query"
          /\ arg \in {[table |-> t, query |-> q] : t \in QueryTables, q \in ListQueries}
       \/ /\ call = "build_type_mapper"
          /\ arg \in {[sa_type |-> t] : t \in SaTypes}
       \/ /\ call = "build_sa_fe_field"
          /\ arg \in {[column |-> Column("c", t, n, <<>>)] : t \in SaTypes, n \in BOOLEAN}
       \/ /\ call = "setup_resources"
          /\ arg \in {[schema |-> sc] : sc \in Schemas}

Done(result) ==
    /\ pc = "call"
    /\ pc' = "done"
    /\ out' = result
    /\ UNCHANGED <<call, arg>>

CreateFilter ==
    /\ call = "create_filter"
    /\ Done(create_filter(arg.table, arg.filter))

CheckValue ==
    /\ call = "check_value"
    /\ Done(check_value(arg.column, arg.value))

\* the validator built for the table, and its check of the payload
ValidatorFromTable ==
    /\ call = "validator_from_table"
    /\ LET validator == validator_from_table(arg.table, arg.primary_key, arg.skip_pk)
       IN Done([raised |-> validator.raised,
                validator |-> validator,
                checked |-> IF validator.raised = "" THEN DictCheck(validator, arg.payload)
                            ELSE [ok |-> FALSE, errors |-> {}, data |-> <<>>]])

ValidateQuery ==
    /\ call = "validate_query"
    /\ Done(validate_query(arg.query, arg.table))

BuildTypeMapper ==
    /\ call = "build_type_mapper"
    /\ Done(build_type_mapper(arg.sa_type))

BuildSaFeField ==
    /\ call = "build_sa_fe_field"
    /\ Done(build_sa_fe_field(arg.column))

SetupResources ==
    /\ call = "setup_resources"
    /\ Done(setup_resources(arg.schema))

Next ==
    \/ CreateFilter
    \/ CheckValue
    \/ ValidatorFromTable
    \/ ValidateQuery
    \/ BuildTypeMapper
    \/ BuildSaFeField
    \/ SetupResources

Spec == Init /\ [][Next]_vars

TypeOK ==
    /\ pc \in {"call", "done"}
    /\ pc = "call" => out = NoOutput

(***************************************************************************)
(* Properties.                                                             *)
(***************************************************************************)
Called(name) == pc = "done" /\ call = name

\* the capability table as documented: category -> operators
DocumentedOperators(cls) ==
    CASE cls \in {"String", "Text"} -> {"eq", "ne", "like"}
      [] cls = "Integer" -> {"eq", "ne", "lt", "le", "gt", "ge", "in"}
      [] cls = "Float" -> {"eq", "ne", "lt", "le", "gt", "ge"}
      [] cls \in {"Date", "DateTime"} -> {"eq", "ne", "lt", "le", "gt", "ge"}
      [] OTHER -> {}

\* a value the column's validator accepts: a list of them for `in`, one otherwise
ValidFilterValue(column, op_name, v) ==
    /\ build_trafaret(column.type).raised = ""
    /\ IF op_name = "in"
       THEN v.kind = "list" /\ InvalidElements(build_trafaret(column.type).trafaret, v) = {}
       ELSE v.kind # "list" /\ Check(build_trafaret(column.type).trafaret, v).ok

SingleExplicit ==
    /\ Called("create_filter")
    /\ Len(arg.filter) = 1
    /\ arg.filter[1][2].isdict
    /\ Len(arg.filter[1][2].items) = 1
    /\ arg.filter[1][1] \in ColumnNames(arg.table)

\* C1: a single-entry filter with a valid value compiles exactly when the
\* (type category, operator) pair is in the documented capability table, and
\* fails as unsupported for every pair outside it.
C1_CapabilityTable ==
    SingleExplicit =>
        LET column == to_column(arg.filter[1][1], arg.table).column
            op_name == arg.filter[1][2].items[1][1]
            v == arg.filter[1][2].items[1][2]
        IN (/\ column.type.cls \in Categories
            /\ op_name \in OperatorNames
            /\ ValidFilterValue(column, op_name, v))
           => IF op_name \in DocumentedOperators(column.type.cls)
              THEN out.returned
              ELSE out.raised = "Exception"

\* the payload is right in every field other than the primary key: it gives every
\* other column a value the column's field accepts, and no key that is no column;
\* the primary key's value, when given, is one its column accepts
OtherwiseConforming ==
    /\ \A i \in 1..Len(arg.table.c) :
          LET column == arg.table.c[i]
          IN IF column.name = arg.primary_key
             THEN column.name \in DOMAIN arg.payload =>
                      Check(build_field(column).trafaret, arg.payload[column.name]).ok
             ELSE /\ column.name \in DOMAIN arg.payload
                  /\ Check(build_field(column).trafaret, arg.payload[column.name]).ok
    /\ DOMAIN arg.payload \subseteq ColumnNames(arg.table) \cup {arg.primary_key}

C3_NullableAndRequired ==
    (Called("validator_from_table") /\ out.raised = "") =>
        \A i \in 1..Len(arg.table.c) :
            LET column == arg.table.c[i]
            IN column.name \in KeyNames(out.validator) =>
                 /\ (/\ column.nullable
                     /\ column.name \in DOMAIN arg.payload
                     /\ arg.payload[column.name] = vNull)
                    => \A e \in out.checked.errors : e[1] # column.name
                 /\ (/\ ~column.nullable
                     /\ column.server_default = <<>>
                     /\ column.name \notin DOMAIN arg.payload)
                    => /\ ~out.checked.ok
                       /\ \E e \in out.checked.errors : e[1] = column.name

C3_Witness ==
    /\ Called("validator_from_table")
    /\ out.raised = ""
    /\ arg.primary_key = "id"
    /\ arg.table.c[2].nullable
    /\ DOMAIN arg.payload = {"id", "name"}
    /\ arg.payload["name"] = vNull
    /\ ~arg.table.c[3].nullable
    /\ arg.table.c[3].server_default = <<>>
    /\ out.checked.errors = {<<"extra", "is required">>}

\* the (column, operator, value) triples of a filter request, columns outer,
\* operators inner; a bare value stands for eq
RECURSIVE Triples(_)
Triples(filter) ==
    IF filter = <<>> THEN <<>>
    ELSE LET items == IF filter[1][2].isdict THEN filter[1][2].items
                      ELSE <<<<"eq", filter[1][2].value>>>>
         IN [i \in 1..Len(items) |-> <<filter[1][1], items[i][1], items[i][2]>>]
            \o Triples(Tail(filter))

SqlOperator(op_name) ==
    CASE op_name = "eq" -> "="
      [] op_name = "ne" -> "!="
      [] op_name = "lt" -> "<"
      [] op_name = "le" -> "<="
      [] op_name = "gt" -> ">"
      [] op_name = "ge" -> ">="
      [] op_name = "like" -> "LIKE"
      [] op_name = "in" -> "IN"
      [] OTHER -> "?"

\* the predicate a triple stands for: the value as the column's validator
\* returns it, as a prefix pattern for like
ExpectedPredicate(table, triple) ==
    LET checked == check_value(to_column(triple[1], table).column, triple[3]).value
    IN Predicate(triple[1], SqlOperator(triple[2]),
                 IF triple[2] = "like" THEN Scalar("str", checked.text \o "%") ELSE checked)

\* C4: a query create_filter returns is the table's select with exactly one
\* predicate per (column, operator, value) triple of the request, in the
\* request's iteration order, and no other predicate.
C4_OnePredicatePerTriple ==
    (Called("create_filter") /\ out.returned) =>
        LET triples == Triples(arg.filter)
        IN /\ out.query.table = arg.table.name
           /\ Len(out.query.where) = Len(triples)
           /\ \A i \in 1..Len(triples) :
                 out.query.where[i] = ExpectedPredicate(arg.table, triples[i])

C4_Witness ==
    /\ Called("create_filter")
    /\ arg.filter = <<<<"age", Mapping(<<<<"gt", i18>>, <<"lt", i65>>>>)>>>>
    /\ out.returned
    /\ out.query.where = <<Predicate("age", ">", i18), Predicate("age", "<", i65)>>

\* the request with every bare value written out as {eq: value}
Explicit(filter) ==
    [i \in 1..Len(filter) |->
        IF filter[i][2].isdict THEN filter[i]
        ELSE <<filter[i][1], Mapping(<<<<"eq", filter[i][2].value>>>>)>>]

\* C5: create_filter gives the shorthand {column: value} the outcome (the same
\* query or the same failure) it gives {column: {eq: value}}.
C5_ShorthandIsEq ==
    Called("create_filter") => out = create_filter(arg.table, Explicit(arg.filter))

C5_Witness ==
    /\ Called("create_filter")
    /\ arg.filter = <<<<"name", Bare(sBob)>>>>
    /\ out.returned
    /\ out.query.where = <<Predicate("name", "=", sBob)>>

\* the columns a list query names that the table does not have
AbsentColumns ==
    ((IF arg.query.filters = <<>> THEN {} ELSE arg.query.filters[1])
         \cup {n \in QueryNames : arg.query.sort_field = <<n>>})
    \ {arg.table.c[i].name : i \in 1..Len(arg.table.c)}

C7_UnknownColumnErrorKind ==
    (/\ Called("create_filter")
     /\ Len(arg.filter) = 1
     /\ arg.filter[1][1] \notin ColumnNames(arg.table))
    => /\ out.raised = validate_query(ListQuery(<<>>, <<{arg.filter[1][1]}>>), arg.table).raised
       /\ out.column = arg.filter[1][1]
       /\ ~out.returned

\* the UI field kind documented for each type category
DocumentedFieldKind(cls) ==
    CASE cls = "Enum" -> "string"
      [] cls = "String" -> "string"
      [] cls = "Text" -> "text"
      [] cls = "Integer" -> "string"
      [] cls = "Float" -> "float"
      [] cls = "DateTime" -> "datetime"
      [] cls = "Date" -> "date"
      [] cls = "Boolean" -> "boolean"
      [] cls = "JSON" -> "json"
      [] cls = "ARRAY" -> "embedded_list"
      [] OTHER -> ""

\* C8: build_sa_fe_field gives a column of each type category its documented
\* UI field kind (text for a Text column), and raises for none of them.
C8_UiFieldKinds ==
    (Called("build_sa_fe_field") /\ arg.column.type.cls \in Categories) =>
        /\ out.raised = ""
        /\ out.fe_type = DocumentedFieldKind(arg.column.type.cls)

\* C9: for a list value with several elements invalid for the column's type,
\* check_value raises one validation error that reports every invalid element.
C9_AllInvalidElementsReported ==
    (/\ Called("check_value")
     /\ arg.value.kind = "list"
     /\ build_trafaret(arg.column.type).raised = ""
     /\ Cardinality(InvalidElements(build_trafaret(arg.column.type).trafaret, arg.value)) >= 2)
    => /\ out.raised = "JsonValidaitonError"
       /\ out.reported = InvalidElements(build_trafaret(arg.column.type).trafaret, arg.value)

\* the fields of a resource's model that its "display" leaves out
Omitted(r) ==
    IF r.display = <<>> THEN {} ELSE {f \in r.model.fields : f \notin r.display[1]}

OmittedListed ==
    \A i \in 1..Len(arg.schema) :
        /\ arg.schema[i].model.name \in DOMAIN out.state
        /\ out.state[arg.schema[i].model.name].list_omit = Omitted(arg.schema[i])

\* C10 as stated: after setup_resources every filter input of every registered
\* resource has props.alwaysOn set, whatever "display" is, and the state entry
\* lists as omitted exactly the model's fields not in "display".
C10_AllInputsAlwaysOn ==
    Called("setup_resources") =>
        /\ Len(out.resources) = Len(arg.schema)
        /\ \A i \in 1..Len(out.resources) :
              \A k \in DOMAIN out.resources[i].inputs :
                  out.resources[i].inputs[k].props.alwaysOn = "alwaysOn"
        /\ OmittedListed

\* C10 as amended: after setup_resources a filter input has props.alwaysOn set
\* exactly when its field is not omitted (it is in "display", or "display" is
\* absent); the state entry lists as omitted exactly the model's fields not in
\* "display".
C10_DisplayedInputsAlwaysOn ==
    Called("setup_resources") =>
        /\ Len(out.resources) = Len(arg.schema)
        /\ \A i \in 1..Len(out.resources) :
              /\ out.resources[i].name = arg.schema[i].model.name
              /\ \A k \in DOMAIN out.resources[i].inputs :
                    (out.resources[i].inputs[k].props.alwaysOn = "alwaysOn")
                        <=> k \notin Omitted(arg.schema[i])
              /\ out.state[out.resources[i].name].inputs = out.resources[i].inputs
        /\ OmittedListed

C10_Witness ==
    /\ Called("setup_resources")
    /\ Len(arg.schema) = 2
    /\ arg.schema[2].model.name = "dummy2"
    /\ arg.schema[2].display = <<{"id"}>>
    /\ out.state["dummy2"].list_omit = {"msg"}
    /\ out.resources[2].inputs["id"].props.alwaysOn = "alwaysOn"
    /\ out.resources[2].inputs["msg"].props.alwaysOn = ""
    /\ arg.schema[1].display = <<>>
    /\ out.state["dummy"].list_omit = {}
    /\ out.resources[1].inputs["id"].props.alwaysOn = "alwaysOn"

====
